---- MODULE Spec2Model ----
(***************************************************************************)
(* mdbook-xmldoc: the model loader (src/src/model.rs, loader::load_from)   *)
(* and the Markdown generator (src/src/generator.rs, generate).            *)
(*                                                                         *)
(* Text is a sequence of tokens: a token is one character ("r", " ") or a  *)
(* literal chunk of a format string ("_**", "](#").  A HashMap is a        *)
(* function over its key set; iterating one visits its keys in an order    *)
(* the model chooses freely (std's RandomState seeds every map anew).      *)
(* An Option is a sequence of length 0 (None) or 1 (Some).                 *)
(***************************************************************************)
EXTENDS Integers, Sequences, FiniteSets, TLC

\* ------------------------------------------------------------------ bounds

\* most tag declarations in an input schema
MaxTags == 2
\* most child references in one schema, over all its tags
MaxRefs == 3
\* longest version string of the version-gate inputs
MaxVersionLen == 3
\* how many times generate is run on the built model
GenRuns == 2
\* how many times load_from is run on the same schema
LoadRuns == 2
\* how far below 1 and above 6 the heading levels asked for go
LevelSlack == 2

\* ------------------------------------------------------------ text helpers

None == << >>
Some(v) == << v >>
IsSome(o) == Len(o) = 1
UnwrapOr(o, d) == IF IsSome(o) THEN o[1] ELSE d

Range(s) == { s[i] : i \in DOMAIN s }

SeqsUpTo(S, n) == UNION { [1..k -> S] : k \in 0..n }

Count(s, x) == Cardinality({ i \in DOMAIN s : s[i] = x })

RECURSIVE Flatten(_)
Flatten(ss) == IF ss = << >> THEN << >> ELSE Head(ss) \o Flatten(Tail(ss))

RECURSIVE Join(_, _)
\* [T]::join(sep): the items with sep between neighbours
Join(items, sep) ==
    IF items = << >> THEN << >>
    ELSE IF Len(items) = 1 THEN items[1]
    ELSE items[1] \o sep \o Join(Tail(items), sep)

\* every order in which an unordered collection may be visited
Orders(S) == { p \in [1..Cardinality(S) -> S] : Range(p) = S }

IsWhitespace(c) == c \in {" ", "\t", "\n", "\r"}

\* char::is_ascii: every character of the model's alphabet but the accented one
IsAsciiChar(c) == c # "e-acute"

AsciiLowerChar(c) ==
    CASE c = "R" -> "r"
      [] c = "A" -> "a"
      [] c = "B" -> "b"
      [] c = "C" -> "c"
      [] c = "E" -> "e"
      [] c = "X" -> "x"
      [] OTHER -> c

\* str::to_ascii_lowercase
ToAsciiLowercase(s) == [ i \in DOMAIN s |-> AsciiLowerChar(s[i]) ]

\* str::to_lowercase: on the model's alphabet the accented character is
\* lower case already, so it differs from the ASCII mapping nowhere
ToLowercase(s) == [ i \in DOMAIN s |-> AsciiLowerChar(s[i]) ]

RECURSIVE TrimStart(_)
TrimStart(s) ==
    IF s # << >> /\ IsWhitespace(Head(s)) THEN TrimStart(Tail(s)) ELSE s

RECURSIVE TrimEnd(_)
TrimEnd(s) ==
    IF s # << >> /\ IsWhitespace(s[Len(s)]) THEN TrimEnd(SubSeq(s, 1, Len(s) - 1)) ELSE s

\* str::trim
Trim(s) == TrimEnd(TrimStart(s))

IsAscii(s) == \A i \in DOMAIN s : IsAsciiChar(s[i])

\* ------------------------------------------------------------------ model.rs

VERSION == << "r", "1" >>

\* is_supported without the trim of line 13
is_supported_untrimmed(version) == ToAsciiLowercase(version) = VERSION

is_supported(version) == Trim(ToAsciiLowercase(version)) = VERSION

\* ChildInternal
Resolved(id) == [ kind |-> "Resolved", id |-> id, name |-> << >> ]
Unresolved(name) == [ kind |-> "Unresolved", id |-> << >>, name |-> name ]

\* the identifiers Uuid::new_v4 can return
Uuids == { << "uuid", i >> : i \in 1..MaxTags }

\* an identifier generator that may repeat itself
new_v4_repeating(used) == Uuids

\* Uuid::new_v4: an identifier no tag of the list carries yet
new_v4(used) == Uuids \ used

EmptyMap == [ k \in {} |-> << >> ]

Put(map, k, v) == [ x \in DOMAIN map \cup {k} |-> IF x = k THEN v ELSE map[x] ]

NoResult == [ kind |-> "None", found |-> << >>, expected |-> << >> ]
OkResult == [ kind |-> "Ok", found |-> << >>, expected |-> << >> ]
PanicResult == [ kind |-> "Panic", found |-> << >>, expected |-> << >> ]
VersionUnsupported(found, expected) ==
    [ kind |-> "VersionUnsupported", found |-> found, expected |-> expected ]

NamespaceWarning == << "schema namespace must be a non-empty ascii sequence" >>
UnresolvedWarning(parent_name, name) ==
    << "unresolved child reference: " >> \o parent_name \o << "->" >> \o name
NoRootsWarning == << "schema has no root tags, likely self-referential?" >>
MultipleRootsWarning(c, root_names) ==
    << "schema has more than one root tag (", ToString(c), "): " >>
        \o Join(root_names, << ", " >>)

VARIABLES
    schema,         \* the deserialized FileRoot handed to load_from
    options,        \* the GeneratorOptions handed to generate
    pc,             \* where the call chain load_from; generate; generate stands
    index,          \* declarations consumed by the enumerate() of phase one
    unvisited,      \* keys the running hash-map loop has not visited yet
    tags,           \* tl_root.tags
    names,          \* tl_root.names
    parents,        \* tl_root.parents
    children_temp,  \* children_temp
    tl_warnings,    \* tl_warnings
    result,         \* what load_from returned (or that it panicked)
    ordered_tags,   \* generate: the sorted (uuid, tag) pairs, as uuids
    position,       \* generate: tags of ordered_tags already emitted
    out,            \* generate: the writes made to the sink in this run
    outs,           \* the complete output of every finished run of generate
    gen_results,    \* the GeneratorResult of every finished run of generate
    faults,         \* what the sink did in every finished run of generate
    sink,           \* the io::Write handed to generate
    header,         \* the last call of HeaderLevel::new or next and its result
    digests         \* the LoadDigest of every earlier run of load_from

vars == << schema, options, pc, index, unvisited, tags, names, parents,
           children_temp, tl_warnings, result, ordered_tags, position, out, outs,
           gen_results, faults, sink, header, digests >>

loaderVars == << index, unvisited, tags, names, parents, children_temp,
                 tl_warnings, result >>
generatorVars == << ordered_tags, position, out, outs, gen_results, faults >>
callerVars == << sink, header, digests >>

\* ------------------------------------------------------------------ inputs

TagNames == { << "A" >>, << "B" >> }
\* a name no tag declares
MissingName == << "X" >>
RefNames == TagNames \cup { MissingName }

ChildSchema(ref, optional, multiple) ==
    [ ref |-> ref, optional |-> optional, multiple |-> multiple ]

TagSchema(id, description, attributes, children, value, example) ==
    [ id |-> id, description |-> description, attributes |-> attributes,
      children |-> children, value |-> value, example |-> example ]

\* a declaration with k child references and nothing else optional
PlainTags(k) ==
    { TagSchema(n, << "d" >>, None,
                IF k = 0 THEN None
                ELSE Some([ i \in 1..k |-> ChildSchema(refs[i], None, None) ]),
                None, None) :
        n \in TagNames, refs \in [1..k -> RefNames] }

RECURSIVE TagLists(_, _)
\* every list of n plain declarations holding at most `budget` references
TagLists(n, budget) ==
    IF n = 0 THEN { << >> }
    ELSE UNION { { << t >> \o rest : t \in PlainTags(k),
                                     rest \in TagLists(n - 1, budget - k) } :
                 k \in 0..budget }

FileRoot(version, namespace, tag_list) ==
    [ version |-> version, namespace |-> namespace, tags |-> tag_list ]

GeneratorOptions(level, crlf) == [ level |-> level, crlf |-> crlf ]

\* the io::Error kinds a failing writer reports
IoErrors == { "BrokenPipe", "WriteZero" }

\* a writer that takes every write, and one that may fail with error
ReliableSink == [ fails |-> FALSE, error |-> "none" ]

FaultySink(error) == [ fails |-> TRUE, error |-> error ]

\* src/src/main.rs builds exactly these options
MainOptions == GeneratorOptions(1, FALSE)

GraphVersions == { << "r", "1" >>, << "r", "2" >> }

GraphSchemas ==
    { FileRoot(v, << "E", "x" >>, tl) :
        v \in GraphVersions,
        tl \in UNION { TagLists(n, MaxRefs) : n \in 0..MaxTags } }

\* the inputs of the second specification: every short version string and
\* several namespaces and options, over a few schemas that use every
\* optional field
VersionChars == { "r", "R", "1", "2", " " }
ParamVersions == SeqsUpTo(VersionChars, MaxVersionLen)

Namespaces == { << "E", "x" >>, << >>, << "e-acute" >> }

\* HeaderLevel::new accepts 1..=6
MinLevel == 1
MaxLevel == 6
AllOptions == { GeneratorOptions(l, c) : l \in MinLevel..MaxLevel, c \in BOOLEAN }

\* the ends of i32, the type of the level
I32Max == 2147483647
I32Min == -I32Max - 1

\* the levels HeaderLevel::new is asked for
Levels == ((MinLevel - LevelSlack)..(MaxLevel + LevelSlack)) \cup { I32Min, I32Max }

BadHeaderLevel(level) == [ kind |-> "BadHeaderLevel", level |-> level ]

HeaderLevel(level) == [ kind |-> "Ok", level |-> level ]

\* the range written 1..6, which leaves 6 out
HeaderLevel_new_exclusive(level) ==
    IF MinLevel <= level /\ level < MaxLevel
    THEN HeaderLevel(level) ELSE BadHeaderLevel(level)

\* HeaderLevel::new, lines 76-81
HeaderLevel_new(level) ==
    IF level \in MinLevel..MaxLevel
    THEN HeaderLevel(level) ELSE BadHeaderLevel(level)

\* HeaderLevel::next, lines 85-87; self.0 is at most 6, the sum cannot overflow
HeaderLevel_next(self) == HeaderLevel_new(self.level + 1)

\* what the caller holds after a call: the result, the argument of new, and
\* for next the level it was called on
NoHeader == [ via |-> "none", arg |-> 0, from |-> 0, result |-> [ kind |-> "None", level |-> 0 ] ]

ViaNew(level) ==
    [ via |-> "new", arg |-> level, from |-> 0, result |-> HeaderLevel_new(level) ]

ViaNext(self) ==
    [ via |-> "next", arg |-> self.level + 1, from |-> self.level,
      result |-> HeaderLevel_next(self) ]

AttributeSchema(id, brief, description, expected, default, optional) ==
    [ id |-> id, brief |-> brief, description |-> description,
      expected |-> expected, default |-> default, optional |-> optional ]

DecoratedTag ==
    TagSchema(<< "A" >>, << " ", "d", "\n" >>,
        Some(<< AttributeSchema(<< "k" >>, << "b", " " >>,
                    Some(<< " ", "l" >>), Some(<< "e", " " >>), Some(<< "v" >>),
                    Some(TRUE)),
                AttributeSchema(<< "m" >>, << "b" >>, None, None, None, None) >>),
        Some(<< ChildSchema(<< "B" >>, Some(TRUE), None),
                ChildSchema(MissingName, Some(TRUE), Some(TRUE)),
                ChildSchema(<< "A" >>, Some(FALSE), Some(TRUE)) >>),
        Some(<< "v", " " >>),
        Some(<< "<", "A", "/", ">", "\n" >>))

BareTag(n) == TagSchema(n, << "d" >>, Some(<< >>), Some(<< >>), None, None)

SampleTagLists ==
    { << >>,
      << DecoratedTag, BareTag(<< "B" >>) >>,
      << BareTag(<< "A" >>), BareTag(<< "A" >>) >> }

ParamSchemas ==
    { FileRoot(v, ns, tl) :
        v \in ParamVersions, ns \in Namespaces, tl \in SampleTagLists }

\* ------------------------------------------------------- loader::load_from

\* lines 165-189: the Tag built from one declaration
Materialized(tag_schema, id, idx) ==
    [ id |-> id,
      name |-> tag_schema.id,
      description |-> Trim(tag_schema.description),
      attributes |->
          LET attrs == UnwrapOr(tag_schema.attributes, << >>)
          IN [ i \in DOMAIN attrs |->
                 [ name |-> attrs[i].id,
                   short_description |-> Trim(attrs[i].brief),
                   long_description |->
                       IF IsSome(attrs[i].description)
                       THEN Some(Trim(attrs[i].description[1])) ELSE None,
                   is_optional |-> UnwrapOr(attrs[i].optional, FALSE),
                   expected_value |->
                       IF IsSome(attrs[i].expected)
                       THEN Some(Trim(attrs[i].expected[1])) ELSE None,
                   default_value |->
                       IF IsSome(attrs[i].default)
                       THEN Some(Trim(attrs[i].default[1])) ELSE None ] ],
      children |-> << >>,
      value |-> IF IsSome(tag_schema.value)
                THEN Some(Trim(tag_schema.value[1])) ELSE None,
      example |-> tag_schema.example,
      index_internal |-> idx + 1 ]

\* lines 214-217: the name index decides Resolved or Unresolved
Lookup(name_index, ref) ==
    IF ref \in DOMAIN name_index
    THEN Resolved(name_index[ref])
    ELSE Unresolved(ref)

\* the edge stored the wrong way round: parent -> child
PushParentSwapped(parent_map, id, parent_uuid) ==
    Put(parent_map, parent_uuid,
        Append(IF parent_uuid \in DOMAIN parent_map THEN parent_map[parent_uuid] ELSE << >>,
               id))

\* lines 228-233: append the parent edge child -> parent
PushParent(parent_map, id, parent_uuid) ==
    Put(parent_map, id,
        Append(IF id \in DOMAIN parent_map THEN parent_map[id] ELSE << >>,
               parent_uuid))

\* lines 224-226: the warning of one reference, if any
PushUnresolved(warns, parent_name, reference) ==
    IF reference.kind = "Unresolved"
    THEN Append(warns, UnresolvedWarning(parent_name, reference.name))
    ELSE warns

RECURSIVE ResolveChildren(_, _, _, _, _)
\* lines 213-236: the inner loop over one parent's stashed child references;
\* st carries the parent's children, the parent map and the warnings
ResolveChildren(parent_uuid, parent_name, child_schemas, name_index, st) ==
    IF child_schemas = << >> THEN st
    ELSE
        LET child_schema == Head(child_schemas)
            reference == Lookup(name_index, child_schema.ref)
            child == [ reference |-> reference,
                       is_optional |-> UnwrapOr(child_schema.optional, FALSE),
                       is_repeatable |-> UnwrapOr(child_schema.multiple, FALSE) ]
        IN ResolveChildren(parent_uuid, parent_name, Tail(child_schemas), name_index,
               [ children |-> Append(st.children, child),
                 parents |-> IF reference.kind = "Resolved"
                             THEN PushParent(st.parents, reference.id, parent_uuid)
                             ELSE st.parents,
                 warnings |-> PushUnresolved(st.warnings, parent_name, reference) ])

\* lines 239-242: the tags without an entry in the parent map, in the order
\* tags.values() visits them
RootPairs(order, tag_map, parent_map) ==
    SelectSeq(order, LAMBDA id : id \notin DOMAIN parent_map)

\* the match of lines 244-256 without its arm for 0
RootWarningsWithoutZero(root_pairs, tag_map) ==
    IF Len(root_pairs) <= 1 THEN << >>
    ELSE << MultipleRootsWarning(Len(root_pairs),
                [ i \in DOMAIN root_pairs |-> tag_map[root_pairs[i]].name ]) >>

\* lines 244-256
RootWarnings(root_pairs, tag_map) ==
    CASE Len(root_pairs) = 1 -> << >>
      [] Len(root_pairs) = 0 -> << NoRootsWarning >>
      [] OTHER ->
            << MultipleRootsWarning(Len(root_pairs),
                   [ i \in DOMAIN root_pairs |-> tag_map[root_pairs[i]].name ]) >>

InitBase(schemas, option_set, sinks) ==
    /\ schema \in schemas
    /\ options \in option_set
    /\ pc = "start"
    /\ index = 0
    /\ unvisited = {}
    /\ tags = EmptyMap
    /\ names = EmptyMap
    /\ parents = EmptyMap
    /\ children_temp = EmptyMap
    /\ tl_warnings = << >>
    /\ result = NoResult
    /\ ordered_tags = << >>
    /\ position = 0
    /\ out = << >>
    /\ outs = << >>
    /\ gen_results = << >>
    /\ faults = << >>
    /\ sink \in sinks
    /\ digests = << >>

\* the options hold a level HeaderLevel::new returned
InitFull(schemas, option_set, sinks) ==
    /\ InitBase(schemas, option_set, sinks)
    /\ header = ViaNew(options.level)

\* main.rs hands generate a writer that does not fail
InitWith(schemas, option_set) == InitFull(schemas, option_set, { ReliableSink })

\* lines 127-152: the version gate, the empty model, the namespace check
LoadBegin ==
    /\ pc = "start"
    /\ IF ~is_supported(schema.version)
       THEN /\ result' = VersionUnsupported(schema.version, VERSION)
            /\ pc' = "failed"
            /\ UNCHANGED tl_warnings
       ELSE /\ tl_warnings' =
                  IF schema.namespace = << >> \/ ~IsAscii(schema.namespace)
                  THEN << NamespaceWarning >> ELSE << >>
            /\ pc' = IF schema.tags = << >> THEN "roots" ELSE "materialize"
            /\ UNCHANGED result
    /\ UNCHANGED << schema, options, index, unvisited, tags, names, parents,
                    children_temp >>
    /\ UNCHANGED generatorVars
    /\ UNCHANGED callerVars

\* lines 164-196: one iteration of phase one; the insert into tags panics
\* when the identifier is taken already, which a fresh one never is
Materialize ==
    /\ pc = "materialize"
    /\ \E id \in new_v4(DOMAIN tags) :
         LET tag_schema == schema.tags[index + 1]
             tag == Materialized(tag_schema, id, index)
         IN /\ children_temp' = Put(children_temp, id,
                                    UnwrapOr(tag_schema.children, << >>))
            /\ tags' = Put(tags, id, tag)
            /\ IF id \in DOMAIN tags
               THEN /\ result' = PanicResult
                    /\ pc' = "panicked"
                    /\ UNCHANGED << index, unvisited >>
               ELSE /\ index' = index + 1
                    /\ pc' = IF index + 1 = Len(schema.tags) THEN "index_names" ELSE pc
                    /\ unvisited' = IF index + 1 = Len(schema.tags)
                                    THEN DOMAIN tags' ELSE unvisited
                    /\ UNCHANGED result
    /\ UNCHANGED << schema, options, names, parents, tl_warnings >>
    /\ UNCHANGED generatorVars
    /\ UNCHANGED callerVars

\* lines 199-203: one iteration of phase two, over tl_root.tags
IndexName ==
    /\ pc = "index_names"
    /\ \E uuid \in unvisited :
         IF tags[uuid].name \in DOMAIN names
         THEN /\ result' = PanicResult
              /\ pc' = "panicked"
              /\ UNCHANGED << names, unvisited >>
         ELSE /\ names' = Put(names, tags[uuid].name, uuid)
              /\ IF unvisited = {uuid}
                 THEN /\ pc' = "resolve"
                      /\ unvisited' = DOMAIN children_temp
                 ELSE /\ pc' = pc
                      /\ unvisited' = unvisited \ {uuid}
              /\ UNCHANGED result
    /\ UNCHANGED << schema, options, index, tags, parents, children_temp, tl_warnings >>
    /\ UNCHANGED generatorVars
    /\ UNCHANGED callerVars

\* lines 208-237: one iteration of phase three, over children_temp
ResolveParent ==
    /\ pc = "resolve"
    /\ \E parent_uuid \in unvisited :
         LET st == ResolveChildren(parent_uuid, tags[parent_uuid].name,
                       children_temp[parent_uuid], names,
                       [ children |-> tags[parent_uuid].children,
                         parents |-> parents,
                         warnings |-> tl_warnings ])
         IN /\ tags' = [ tags EXCEPT ![parent_uuid].children = st.children ]
            /\ parents' = st.parents
            /\ tl_warnings' = st.warnings
            /\ unvisited' = unvisited \ {parent_uuid}
            /\ pc' = IF unvisited = {parent_uuid} THEN "roots" ELSE pc
    /\ UNCHANGED << schema, options, index, names, children_temp, result >>
    /\ UNCHANGED generatorVars
    /\ UNCHANGED callerVars

\* lines 239-258: root analysis, then Ok(LoadDigest)
RootAnalysis ==
    /\ pc = "roots"
    /\ \E order \in Orders(DOMAIN tags) :
         tl_warnings' = tl_warnings \o RootWarnings(RootPairs(order, tags, parents), tags)
    /\ result' = OkResult
    /\ pc' = "loaded"
    /\ UNCHANGED << schema, options, index, unvisited, tags, names, parents,
                    children_temp >>
    /\ UNCHANGED generatorVars
    /\ UNCHANGED callerVars

\* ------------------------------------------------------------- generator.rs

\* the character ` of the Markdown dialect
Backtick == "<backtick>"

\* Context.newline and Context.newblock (lines 118-119)
newline(opts) == IF opts.crlf THEN << "\r", "\n" >> ELSE << "\n" >>
newblock(opts) == newline(opts) \o newline(opts)

\* HeaderLevel::get_prefix
get_prefix(level) == [ i \in 1..level |-> "#" ]

\* Every Context method returns the write! calls it makes, in order; one
\* write is the text one write! call formats.

writer_tag_header(opts, namespace, title) ==
    << get_prefix(opts.level) \o << " ", Backtick >> \o namespace \o << ":" >> \o title
         \o << Backtick >> \o newblock(opts) >>

write_tag_subheader(opts, text) ==
    << << "_**", text, ":**_" >> \o newblock(opts) >>

write_paragraph(opts, text) == << text \o newblock(opts) >>

write_attribute(opts, attr) ==
    << << "* ", Backtick >> \o attr.name \o << Backtick, " - " >> \o attr.short_description
         \o (IF attr.is_optional THEN << " _(optional)_" >> ELSE << >>)
         \o newline(opts) >>
    \o (IF IsSome(attr.long_description)
        THEN << << "  * " >> \o attr.long_description[1] \o newline(opts) >>
        ELSE << >>)
    \o (IF IsSome(attr.expected_value)
        THEN << << "  * _Expected value:_ " >> \o attr.expected_value[1] \o newline(opts) >>
        ELSE << >>)
    \o (IF IsSome(attr.default_value)
        THEN << << "  * _Default value:_ " >> \o attr.default_value[1] \o newline(opts) >>
        ELSE << >>)

write_parent_item(opts, namespace, name) ==
    << << "* [", Backtick >> \o namespace \o << ":" >> \o name \o << Backtick, "](#" >>
         \o ToLowercase(namespace) \o ToLowercase(name) \o << ")" >> \o newline(opts) >>

write_child_item(opts, linked, namespace, name, optional, repeated) ==
    << IF linked
       THEN << "* [", Backtick >> \o namespace \o << ":" >> \o name \o << Backtick, "](#" >>
              \o ToLowercase(namespace) \o ToLowercase(name) \o << ")" >>
       ELSE << "* ", Backtick >> \o namespace \o << ":" >> \o name \o << Backtick >> >>
    \o (IF optional \/ repeated
        THEN << << " _(" >>
                  \o Join((IF optional THEN << << "optional" >> >> ELSE << >>)
                          \o (IF repeated THEN << << "repeated" >> >> ELSE << >>),
                          << ", " >>)
                  \o << ")_" >> >>
        ELSE << >>)
    \o << newline(opts) >>

write_xml(opts, code) ==
    << << Backtick, Backtick, Backtick, "xml" >> \o newline(opts) \o TrimEnd(code) \o newline(opts)
         \o << Backtick, Backtick, Backtick >> \o newblock(opts) >>

write_newblock(opts) == << newblock(opts) >>

RECURSIVE InsertByIndex(_, _, _)
\* where a stable sort puts `uuid` among the already sorted pairs: behind
\* every pair whose index is not greater
InsertByIndex(sorted, uuid, tag_map) ==
    IF sorted = << >> THEN << uuid >>
    ELSE IF tag_map[Head(sorted)].index_internal <= tag_map[uuid].index_internal
         THEN << Head(sorted) >> \o InsertByIndex(Tail(sorted), uuid, tag_map)
         ELSE << uuid >> \o sorted

RECURSIVE SortByIndex(_, _)
\* lines 126-130: pairs.sort_by(index), a stable sort of the collected pairs
SortByIndex(pairs, tag_map) ==
    IF pairs = << >> THEN << >>
    ELSE InsertByIndex(SortByIndex(SubSeq(pairs, 1, Len(pairs) - 1), tag_map),
                       pairs[Len(pairs)], tag_map)

\* lines 127-129 left out: the pairs in the order the map yields them
Unsorted(pairs, tag_map) == pairs

\* lines 124-131
OrderedTags(pairs, tag_map) == SortByIndex(pairs, tag_map)

\* lines 137-150
AttributesBlock(opts, tag) ==
    IF tag.attributes # << >>
    THEN write_tag_subheader(opts, "Attributes")
           \o Flatten([ i \in DOMAIN tag.attributes |->
                          write_attribute(opts, tag.attributes[i]) ])
           \o write_newblock(opts)
    ELSE << >>

\* lines 152-155
ValueBlock(opts, tag) ==
    IF IsSome(tag.value)
    THEN write_tag_subheader(opts, "Value") \o write_paragraph(opts, tag.value[1])
    ELSE << >>

\* every child rendered as a link, also the Unresolved one
ChildItemAlwaysLinked(opts, namespace, tag_map, child) ==
    write_child_item(opts, TRUE, namespace,
                     IF child.reference.kind = "Resolved"
                     THEN tag_map[child.reference.id].name ELSE child.reference.name,
                     child.is_optional, child.is_repeatable)

\* lines 160-179: one child, linked when Resolved
ChildItem(opts, namespace, tag_map, child) ==
    IF child.reference.kind = "Resolved"
    THEN write_child_item(opts, TRUE, namespace, tag_map[child.reference.id].name,
                          child.is_optional, child.is_repeatable)
    ELSE write_child_item(opts, FALSE, namespace, child.reference.name,
                          child.is_optional, child.is_repeatable)

\* lines 157-182
ChildrenBlock(opts, namespace, tag_map, tag) ==
    IF tag.children # << >>
    THEN write_tag_subheader(opts, "Children")
           \o Flatten([ i \in DOMAIN tag.children |->
                          ChildItem(opts, namespace, tag_map, tag.children[i]) ])
           \o write_newblock(opts)
    ELSE << >>

\* lines 184-205
ParentsBlock(opts, namespace, tag_map, parent_map, uuid) ==
    write_tag_subheader(opts, "Parents")
    \o (IF uuid \in DOMAIN parent_map
        THEN Flatten([ i \in DOMAIN parent_map[uuid] |->
                         IF parent_map[uuid][i] \in DOMAIN tag_map
                         THEN write_parent_item(opts, namespace,
                                                tag_map[parent_map[uuid][i]].name)
                         ELSE << >> ])
               \o write_newblock(opts)
        ELSE write_paragraph(opts, << "This tag has no possible parents!" >>))

\* lines 207-210
ExampleBlock(opts, tag) ==
    IF IsSome(tag.example)
    THEN write_tag_subheader(opts, "Example") \o write_xml(opts, tag.example[1])
    ELSE << >>

\* lines 133-211: the body of the loop over ordered_tags, for one tag
RenderTag(opts, namespace, tag_map, parent_map, uuid) ==
    writer_tag_header(opts, namespace, tag_map[uuid].name)
    \o write_paragraph(opts, tag_map[uuid].description)
    \o AttributesBlock(opts, tag_map[uuid])
    \o ValueBlock(opts, tag_map[uuid])
    \o ChildrenBlock(opts, namespace, tag_map, tag_map[uuid])
    \o ParentsBlock(opts, namespace, tag_map, parent_map, uuid)
    \o ExampleBlock(opts, tag_map[uuid])

\* ------------------------------------------------ the sink and its faults

\* every write of the unit succeeded
NoFault == [ at |-> 0, cause |-> "none" ]

\* the write numbered at fails with an io::Error of kind cause
Fault(at, cause) == [ at |-> at, cause |-> cause ]

\* what the sink may do while one tag's writes W reach it: a reliable sink
\* takes them all, a faulty one may fail at any one of them with its error
SinkFaults(writer, W) ==
    { NoFault } \cup
    ( IF writer.fails
      THEN { Fault(k, writer.error) : k \in DOMAIN W }
      ELSE {} )

\* lines 53-57: From<io::Error>
InternalInputOutput(inner) ==
    [ kind |-> "InternalInputOutput", inner |-> inner, description |-> None ]

\* line 213
GeneratorOk == [ kind |-> "Ok", inner |-> "none", description |-> None ]

\* the ? of every write! of lines 225-306 carried on: the failed write is lost
\* and the later ones still reach the sink
SinkWritesIgnoringFault(W, fault) ==
    IF fault.at = 0 THEN W
    ELSE SubSeq(W, 1, fault.at - 1) \o SubSeq(W, fault.at + 1, Len(W))

\* lines 225-306: every write! is followed by ?, so the writes that reach the
\* sink are those before the first one that fails
SinkWrites(W, fault) ==
    IF fault.at = 0 THEN W ELSE SubSeq(W, 1, fault.at - 1)

\* lines 115-131: generate is called on the built model; the pairs are
\* collected in the map's order and sorted.  With no tag the loop body never
\* runs and generate returns Ok at once.  The caller does not call generate
\* again once a run has failed (main.rs lines 196-202).
GenerateBegin ==
    /\ pc = "loaded"
    /\ header.result.kind = "Ok"
    /\ Len(outs) < GenRuns
    /\ \A r \in DOMAIN gen_results : gen_results[r].kind = "Ok"
    /\ \E pairs \in Orders(DOMAIN tags) :
         ordered_tags' = OrderedTags(pairs, tags)
    /\ position' = 0
    /\ out' = << >>
    /\ IF DOMAIN tags = {}
       THEN /\ outs' = Append(outs, << >>)
            /\ gen_results' = Append(gen_results, GeneratorOk)
            /\ faults' = Append(faults, NoFault)
            /\ pc' = "loaded"
       ELSE /\ outs' = outs
            /\ gen_results' = gen_results
            /\ faults' = faults
            /\ pc' = "generate"
    /\ UNCHANGED << schema, options >>
    /\ UNCHANGED loaderVars
    /\ UNCHANGED callerVars

\* lines 133-213: one iteration of the loop over ordered_tags.  A write that
\* fails makes generate return the converted error at once; after the last
\* tag generate returns Ok.
GenerateTag ==
    /\ pc = "generate"
    /\ \E fault \in SinkFaults(sink, RenderTag(options, schema.namespace, tags,
                                               parents, ordered_tags[position + 1])) :
         LET W == RenderTag(options, schema.namespace, tags, parents,
                            ordered_tags[position + 1])
         IN /\ out' = out \o SinkWrites(W, fault)
            /\ IF fault.at # 0
               THEN /\ position' = position
                    /\ outs' = Append(outs, out')
                    /\ gen_results' = Append(gen_results, InternalInputOutput(fault.cause))
                    /\ faults' = Append(faults, Fault(Len(out) + fault.at, fault.cause))
                    /\ pc' = "loaded"
               ELSE /\ position' = position + 1
                    /\ IF position + 1 = Len(ordered_tags)
                       THEN /\ outs' = Append(outs, out')
                            /\ gen_results' = Append(gen_results, GeneratorOk)
                            /\ faults' = Append(faults, NoFault)
                            /\ pc' = "loaded"
                       ELSE /\ outs' = outs
                            /\ gen_results' = gen_results
                            /\ faults' = faults
                            /\ pc' = pc
    /\ UNCHANGED << schema, options, ordered_tags >>
    /\ UNCHANGED loaderVars
    /\ UNCHANGED callerVars

\* the LoadDigest of line 258
LoadDigest(tag_map, name_index, parent_map, warns) ==
    [ model |-> [ tags |-> tag_map, names |-> name_index, parents |-> parent_map ],
      warnings |-> warns ]

\* main.rs, internal_load: a later run of the program calls load_from on the
\* same deserialized schema; the LoadDigest of the run before is kept
LoadAgain ==
    /\ pc = "loaded"
    /\ Len(digests) + 1 < LoadRuns
    /\ digests' = Append(digests, LoadDigest(tags, names, parents, tl_warnings))
    /\ pc' = "start"
    /\ index' = 0
    /\ unvisited' = {}
    /\ tags' = EmptyMap
    /\ names' = EmptyMap
    /\ parents' = EmptyMap
    /\ children_temp' = EmptyMap
    /\ tl_warnings' = << >>
    /\ result' = NoResult
    /\ ordered_tags' = << >>
    /\ position' = 0
    /\ out' = << >>
    /\ outs' = << >>
    /\ gen_results' = << >>
    /\ faults' = << >>
    /\ UNCHANGED << schema, options, sink, header >>

\* main.rs line 174: the caller asks HeaderLevel::new for a level and, given
\* one, puts it into the options
NewLevel ==
    /\ pc \in { "start", "loaded" }
    /\ header.via = "none"
    /\ \E level \in Levels :
         /\ header' = ViaNew(level)
         /\ options' = IF header'.result.kind = "Ok"
                       THEN GeneratorOptions(header'.result.level, options.crlf)
                       ELSE options
    /\ UNCHANGED << schema, pc, sink, digests >>
    /\ UNCHANGED loaderVars
    /\ UNCHANGED generatorVars

\* the caller goes one level deeper with HeaderLevel::next before generating
NextLevel ==
    /\ pc \in { "start", "loaded" }
    /\ header.result.kind = "Ok"
    /\ outs = << >>
    /\ header' = ViaNext(header.result)
    /\ options' = IF header'.result.kind = "Ok"
                  THEN GeneratorOptions(header'.result.level, options.crlf)
                  ELSE options
    /\ UNCHANGED << schema, pc, sink, digests >>
    /\ UNCHANGED loaderVars
    /\ UNCHANGED generatorVars

Next ==
    \/ LoadBegin
    \/ Materialize
    \/ IndexName
    \/ ResolveParent
    \/ RootAnalysis
    \/ GenerateBegin
    \/ GenerateTag

Init == InitWith(GraphSchemas, { MainOptions })

InitParams == InitWith(ParamSchemas, AllOptions)

\* every schema graph within the bounds, rendered as main.rs does
Spec == Init /\ [][Next]_vars

\* every version string within the bounds, over the sample schemas
SpecParams == InitParams /\ [][Next]_vars

\* the schemas of the faulty-sink specification: the sample tag lists
FaultSchemas ==
    { FileRoot(VERSION, << "E", "x" >>, tl) : tl \in SampleTagLists }

InitFaulty ==
    InitFull(FaultSchemas, { MainOptions },
             { ReliableSink } \cup { FaultySink(e) : e \in IoErrors })

\* generate writing to a sink that may fail at any write
SpecFaulty == InitFaulty /\ [][Next]_vars

NextReload == Next \/ LoadAgain

InitLevels ==
    /\ InitBase(FaultSchemas, { MainOptions }, { ReliableSink })
    /\ header = NoHeader

NextLevels == Next \/ NewLevel \/ NextLevel

\* the caller obtains the heading level from HeaderLevel::new and next
SpecLevels == InitLevels /\ [][NextLevels]_vars

\* every schema graph within the bounds, loaded LoadRuns times
SpecReload == Init /\ [][NextReload]_vars

\* ================================================================== claims

\* -------------------------------------------- what the claims talk about

Terminated == pc \in { "failed", "panicked", "loaded" }

TagCount == Len(schema.tags)

UniqueNames ==
    \A i, j \in 1..TagCount : schema.tags[i].id = schema.tags[j].id => i = j

DuplicateNames == ~UniqueNames

DeclaredNames == { schema.tags[i].id : i \in 1..TagCount }

\* the version, lower-cased and trimmed, is "r1": whitespace, then r or R,
\* then 1, then whitespace
NormalisedIsR1(v) ==
    \E a \in 0..Len(v) :
        /\ a + 2 <= Len(v)
        /\ \A k \in 1..a : v[k] \in { " ", "\t", "\n", "\r" }
        /\ v[a + 1] \in { "r", "R" }
        /\ v[a + 2] = "1"
        /\ \A k \in (a + 3)..Len(v) : v[k] \in { " ", "\t", "\n", "\r" }

SupportedVersion == NormalisedIsR1(schema.version)

\* the tag built from declaration i, when there is exactly one
TagOf(i) == CHOOSE u \in DOMAIN tags : tags[u].index_internal = i

ParentsOf(u) == IF u \in DOMAIN parents THEN parents[u] ELSE << >>

\* ---------------------------------------------------------------------- C1
\* C1: for every schema with a supported version in which two tag
\* declarations share a name, load_from returns an Err of the loader's error
\* type: it never panics and never returns a model.
C1_DuplicateNamesAreTypedError ==
    (SupportedVersion /\ DuplicateNames) =>
        /\ result.kind # "Panic"
        /\ Terminated => result.kind = "VersionUnsupported"

\* ---------------------------------------------------------------------- C2
\* C2: for every schema with a supported version and N uniquely named
\* declarations load_from succeeds; the model has exactly N entries in tags
\* and N in names, every declared tag is found under its identifier in tags
\* and under its name in names, and names[t.name] = t.id for every tag t.
C2_UniqueTagsAllIndexed ==
    (SupportedVersion /\ UniqueNames) =>
        /\ result.kind \notin { "Panic", "VersionUnsupported" }
        /\ Terminated =>
             /\ result.kind = "Ok"
             /\ Cardinality(DOMAIN tags) = TagCount
             /\ Cardinality(DOMAIN names) = TagCount
             /\ \A i \in 1..TagCount :
                  \E u \in DOMAIN tags :
                     /\ tags[u].id = u
                     /\ tags[u].name = schema.tags[i].id
                     /\ tags[u].index_internal = i
                     /\ schema.tags[i].id \in DOMAIN names
                     /\ names[schema.tags[i].id] = u
             /\ \A u \in DOMAIN tags :
                  tags[u].name \in DOMAIN names /\ names[tags[u].name] = tags[u].id

C2_Witness ==
    /\ pc = "loaded"
    /\ TagCount = 2
    /\ Cardinality(DOMAIN names) = 2

\* ---------------------------------------------------------------------- C3
\* C3: in every model load_from returns, for every pair of tags P and C the
\* Resolved child references of P that target C are exactly as many as the
\* occurrences of P in parents[C]; the parent map holds nothing else, so an
\* Unresolved child contributes no parent entry.
ResolvedRefs(p, c) ==
    Cardinality({ i \in DOMAIN tags[p].children :
                     tags[p].children[i].reference = Resolved(c) })

C3_EdgeCorrespondence ==
    result.kind = "Ok" =>
        /\ DOMAIN parents \subseteq DOMAIN tags
        /\ \A c \in DOMAIN parents :
              parents[c] # << >> /\ Range(parents[c]) \subseteq DOMAIN tags
        /\ \A p, c \in DOMAIN tags : ResolvedRefs(p, c) = Count(ParentsOf(c), p)
        /\ \A p \in DOMAIN tags : \A i \in DOMAIN tags[p].children :
              tags[p].children[i].reference.kind = "Resolved"
                  => tags[p].children[i].reference.id \in DOMAIN tags

\* one tag refers twice to a declared tag and once to an undeclared one
C3_Witness ==
    /\ result.kind = "Ok"
    /\ \E p, c \in DOMAIN tags :
          /\ ResolvedRefs(p, c) = 2
          /\ \E i \in DOMAIN tags[p].children :
                tags[p].children[i].reference.kind = "Unresolved"

C4_WitnessRejected ==
    /\ pc = "failed"
    /\ schema.version = << "r", "1", "2" >>
    /\ schema.namespace = << >>

\* ------------------------------------------ reading the generated output

\* declaration i is a root: no declaration refers to its name
RefsOf(i) == UnwrapOr(schema.tags[i].children, << >>)

IsRootDecl(i) ==
    \A j \in 1..TagCount : \A k \in DOMAIN RefsOf(j) :
        RefsOf(j)[k].ref # schema.tags[i].id

RootDecls == SelectSeq([ i \in 1..TagCount |-> i ], IsRootDecl)

IsHeader(w) == w # << >> /\ w[1] = "#"

HeaderOf(name) == writer_tag_header(options, schema.namespace, name)[1]

Subheader(text) == write_tag_subheader(options, text)[1]

\* where the n-th header stands in o
HeaderPos(o, n) ==
    CHOOSE k \in DOMAIN o :
        IsHeader(o[k]) /\ Cardinality({ j \in 1..k : IsHeader(o[j]) }) = n

HeaderCount(o) == Cardinality({ k \in DOMAIN o : IsHeader(o[k]) })

\* the writes of the n-th tag of o, from its header up to the next header
Section(o, n) ==
    SubSeq(o, HeaderPos(o, n),
           IF n < HeaderCount(o) THEN HeaderPos(o, n + 1) - 1 ELSE Len(o))

\* the section of o whose header names `name`
SectionOf(o, name) ==
    Section(o, CHOOSE n \in 1..HeaderCount(o) : Section(o, n)[1] = HeaderOf(name))

PosIn(sec, w) == CHOOSE k \in DOMAIN sec : sec[k] = w

IsItem(w) == w # << >> /\ w[1] \in { "* ", "* [" }

\* the list items of the Children block of a section
ChildItems(sec) ==
    IF \E k \in DOMAIN sec : sec[k] = Subheader("Children")
    THEN SelectSeq(SubSeq(sec, PosIn(sec, Subheader("Children")) + 1,
                          PosIn(sec, Subheader("Parents")) - 1),
                   IsItem)
    ELSE << >>

\* the list items of the Parents block of a section
ParentItems(sec) ==
    SelectSeq(SubSeq(sec, PosIn(sec, Subheader("Parents")) + 1, Len(sec)), IsItem)

\* the Markdown of a link to tag `name`, and of `name` as inline code
LinkTo(name) ==
    << "* [", Backtick >> \o schema.namespace \o << ":" >> \o name
        \o << Backtick, "](#" >> \o ToLowercase(schema.namespace) \o ToLowercase(name)
        \o << ")" >>

InlineCode(name) ==
    << "* ", Backtick >> \o schema.namespace \o << ":" >> \o name \o << Backtick >>

\* the declaration index of the tag a parent item links to
LinkedIndex(w) ==
    CHOOSE i \in 1..TagCount : w = LinkTo(schema.tags[i].id) \o newline(options)

IsRootWarning(w) == w # << >> /\ w[1] = "schema has more than one root tag ("

IsUnresolvedWarning(w) == w # << >> /\ w[1] = "unresolved child reference: "

RootWarningCount == Cardinality({ k \in DOMAIN tl_warnings : IsRootWarning(tl_warnings[k]) })

UnresolvedWarningCount ==
    Cardinality({ k \in DOMAIN tl_warnings : IsUnresolvedWarning(tl_warnings[k]) })

\* ---------------------------------------------------------------------- C5
\* C5: when the model has more than one root tag, load_from appends exactly
\* one multiple-roots warning; it names every root, comma-joined, in
\* ascending declaration order, whatever order the hash maps iterate in.
C5_RootsListedInDeclarationOrder ==
    (result.kind = "Ok" /\ Len(RootDecls) > 1) =>
        /\ RootWarningCount = 1
        /\ \E k \in DOMAIN tl_warnings :
              tl_warnings[k] =
                 << "schema has more than one root tag (", ToString(Len(RootDecls)), "): " >>
                    \o Join([ n \in DOMAIN RootDecls |-> schema.tags[RootDecls[n]].id ],
                            << ", " >>)

\* ---------------------------------------------------------------------- C6
\* C6: in the Parents block rendered for a tag the parent links stand in
\* ascending declaration-index order of the parents, whatever order the
\* loader's hash map visited the declaring tags in.
C6_ParentsListedInDeclarationOrder ==
    \A r \in DOMAIN outs : \A i \in 1..TagCount :
        LET items == ParentItems(SectionOf(outs[r], schema.tags[i].id))
        IN \A a, b \in DOMAIN items :
              a < b => LinkedIndex(items[a]) <= LinkedIndex(items[b])

\* ---------------------------------------------------------------------- C7
\* C7: a child reference of tag X to a name Y that no tag declares gets
\* exactly one warning naming X and Y, is stored Unresolved with the raw
\* name Y, and is rendered in X's Children block as inline code without a
\* link; a reference to a declared name gets no warning, is stored Resolved
\* and is rendered as a link.
UndeclaredRefs(i, y) ==
    IF y \in DeclaredNames THEN 0
    ELSE Cardinality({ k \in DOMAIN RefsOf(i) : RefsOf(i)[k].ref = y })

C7_UnresolvedReferences ==
    result.kind = "Ok" =>
        /\ \A i \in 1..TagCount : \A y \in RefNames :
              Count(tl_warnings,
                    << "unresolved child reference: " >> \o schema.tags[i].id
                        \o << "->" >> \o y)
                = UndeclaredRefs(i, y)
        /\ \A i \in 1..TagCount :
              LET stored == tags[TagOf(i)].children
              IN /\ Len(stored) = Len(RefsOf(i))
                 /\ \A k \in DOMAIN stored :
                       IF RefsOf(i)[k].ref \in DeclaredNames
                       THEN /\ stored[k].reference.kind = "Resolved"
                            /\ tags[stored[k].reference.id].name = RefsOf(i)[k].ref
                       ELSE stored[k].reference = Unresolved(RefsOf(i)[k].ref)
        /\ \A r \in DOMAIN outs : \A i \in 1..TagCount :
              LET items == ChildItems(SectionOf(outs[r], schema.tags[i].id))
              IN /\ Len(items) = Len(RefsOf(i))
                 /\ \A k \in DOMAIN items :
                       IF RefsOf(i)[k].ref \in DeclaredNames
                       THEN items[k] = LinkTo(RefsOf(i)[k].ref)
                       ELSE /\ items[k] = InlineCode(RefsOf(i)[k].ref)
                            /\ "](#" \notin Range(items[k])

\* a rendered tag refers both to a declared and to an undeclared name
C7_Witness ==
    /\ Len(outs) >= 1
    /\ \E i \in 1..TagCount :
          /\ \E k \in DOMAIN RefsOf(i) : RefsOf(i)[k].ref \notin DeclaredNames
          /\ \E k \in DOMAIN RefsOf(i) : RefsOf(i)[k].ref \in DeclaredNames
          /\ UnresolvedWarningCount >= 1

\* ---------------------------------------------------------------------- C8
\* C8: load_from appends the zero-roots warning exactly when no tag is a
\* root, that is when every tag's identifier has an entry in the parent map
\* (a pure cycle, a tag that refers to itself, a schema without tags); it
\* then appends no multiple-roots warning, and with exactly one root it
\* appends no root warning at all.
C8_ZeroRoots ==
    result.kind = "Ok" =>
        /\ \A i \in 1..TagCount : IsRootDecl(i) <=> TagOf(i) \notin DOMAIN parents
        /\ Count(tl_warnings, NoRootsWarning) = (IF Len(RootDecls) = 0 THEN 1 ELSE 0)
        /\ Len(RootDecls) = 0 => RootWarningCount = 0
        /\ Len(RootDecls) = 1 =>
              /\ RootWarningCount = 0
              /\ Count(tl_warnings, NoRootsWarning) = 0

\* a pure cycle A -> B, B -> A was loaded
C8_Witness ==
    /\ result.kind = "Ok"
    /\ TagCount = 2
    /\ Len(RootDecls) = 0
    /\ \A i \in 1..2 : \A k \in DOMAIN RefsOf(i) : RefsOf(i)[k].ref = schema.tags[3 - i].id
    /\ \A i \in 1..2 : RefsOf(i) # << >>

\* ---------------------------------------------------------------------- C9
\* C9: generate emits the tags in ascending declaration-index order, each
\* tag exactly once, whatever order the tags hash map iterates in.
C9_TagsInDeclarationOrder ==
    \A r \in DOMAIN outs :
        SelectSeq(outs[r], IsHeader) = [ i \in 1..TagCount |-> HeaderOf(schema.tags[i].id) ]

C9_Witness ==
    /\ Len(outs) >= 1
    /\ TagCount = 2
    /\ HeaderCount(outs[1]) = 2

\* --------------------------------------------------------------------- C10
\* C10: two runs of generate on the same built model with the same options
\* and a sink that never fails write the same bytes.
C10_RenderDeterminism ==
    \A r, q \in DOMAIN outs : Flatten(outs[r]) = Flatten(outs[q])

C10_Witness ==
    /\ Len(outs) = 2
    /\ TagCount = 2
    /\ Len(Flatten(outs[2])) > 0

\* --------------------------------------------------------------------- C11
\* C11: two runs of load_from on the same schema yield the same warnings in
\* the same order and graphs that are equal up to the renaming of the
\* generated identifiers, the order of every parent list included, whatever
\* order the hash maps iterate in.

\* a model with every identifier replaced by its tag's declaration index
Renamed(model) ==
    LET idx(u) == model.tags[u].index_internal
    IN [ tags |->
           { [ index |-> idx(u),
               name |-> model.tags[u].name,
               description |-> model.tags[u].description,
               attributes |-> model.tags[u].attributes,
               value |-> model.tags[u].value,
               example |-> model.tags[u].example,
               children |->
                   [ k \in DOMAIN model.tags[u].children |->
                       LET c == model.tags[u].children[k]
                       IN << c.reference.kind,
                             IF c.reference.kind = "Resolved"
                             THEN << idx(c.reference.id) >> ELSE c.reference.name,
                             c.is_optional, c.is_repeatable >> ],
               parents |->
                   IF u \in DOMAIN model.parents
                   THEN Some([ k \in DOMAIN model.parents[u] |-> idx(model.parents[u][k]) ])
                   ELSE None ] : u \in DOMAIN model.tags },
         names |-> { << n, idx(model.names[n]) >> : n \in DOMAIN model.names } ]

C11_LoadDeterminism ==
    result.kind = "Ok" =>
        \A r \in DOMAIN digests :
            /\ digests[r].warnings = tl_warnings
            /\ Renamed(digests[r].model)
                 = Renamed(LoadDigest(tags, names, parents, tl_warnings).model)

\* --------------------------------------------------------------------- C12
\* C12: a write fault aborts generation at once: after a failed write
\* generate makes no further write to the sink and processes no further block
\* or tag, and it returns an error that carries the cause; generate returns Ok
\* only if every write succeeded.

\* the writes of a whole run of generate on the built model
AllWrites ==
    IF DOMAIN tags = {} THEN << >>
    ELSE LET ordered == SortByIndex(CHOOSE p \in Orders(DOMAIN tags) : TRUE, tags)
         IN Flatten([ i \in DOMAIN ordered |->
                        RenderTag(options, schema.namespace, tags, parents, ordered[i]) ])

C12_WriteFaultAborts ==
    /\ Len(gen_results) = Len(outs) /\ Len(faults) = Len(outs)
    /\ \A r \in DOMAIN outs :
          /\ gen_results[r].kind = "Ok" <=> faults[r] = NoFault
          /\ faults[r] = NoFault => outs[r] = AllWrites
          /\ faults[r] # NoFault =>
                /\ gen_results[r] = [ kind |-> "InternalInputOutput",
                                      inner |-> faults[r].cause,
                                      description |-> None ]
                /\ faults[r].at \in 1..Len(AllWrites)
                /\ outs[r] = SubSeq(AllWrites, 1, faults[r].at - 1)

\* a run that failed at a write which is neither the first nor the last
C12_Witness ==
    \E r \in DOMAIN outs :
        /\ gen_results[r].kind = "InternalInputOutput"
        /\ faults[r].at > 1
        /\ faults[r].at < Len(AllWrites)
        /\ TagCount = 2

\* --------------------------------------------------------------------- C13
\* C13: every tag gets a Parents block, after its Attributes, Value and
\* Children blocks and before its Example block; the block is exactly the
\* sentence "This tag has no possible parents!" if and only if no Resolved
\* child reference of the model targets the tag, and otherwise it holds one
\* link per parent.

HasSubheader(sec, text) == \E k \in DOMAIN sec : sec[k] = Subheader(text)

\* the writes of the Parents block of a section, its subheader left out
ParentsBody(sec) ==
    SubSeq(sec, PosIn(sec, Subheader("Parents")) + 1,
           IF HasSubheader(sec, "Example")
           THEN PosIn(sec, Subheader("Example")) - 1 ELSE Len(sec))

NoParentsSentence == write_paragraph(options, << "This tag has no possible parents!" >>)

\* the tags with a Resolved child reference to tag c
ParentSet(c) == { p \in DOMAIN tags : ResolvedRefs(p, c) > 0 }

\* the Parents block of declaration i in run r stands where it should and
\* holds the sentence or the links; links(p, c) tells how many links parent p
\* is due in the block of c
ParentsPlaced(r, i) ==
    LET sec == SectionOf(outs[r], schema.tags[i].id)
    IN /\ Cardinality({ k \in DOMAIN sec : sec[k] = Subheader("Parents") }) = 1
       /\ \A text \in { "Attributes", "Value", "Children" } :
             HasSubheader(sec, text) =>
                 PosIn(sec, Subheader(text)) < PosIn(sec, Subheader("Parents"))
       /\ HasSubheader(sec, "Example") =>
             PosIn(sec, Subheader("Parents")) < PosIn(sec, Subheader("Example"))
       /\ ParentsBody(sec) = NoParentsSentence <=> ParentSet(TagOf(i)) = {}

ParentLink(p) == LinkTo(tags[p].name) \o newline(options)

C13_ParentsBlock ==
    \A r \in DOMAIN outs : gen_results[r].kind = "Ok" =>
        \A i \in 1..TagCount :
            LET body == ParentsBody(SectionOf(outs[r], schema.tags[i].id))
            IN /\ ParentsPlaced(r, i)
               /\ ParentSet(TagOf(i)) # {} =>
                     /\ Len(body) = Cardinality(ParentSet(TagOf(i))) + 1
                     /\ body[Len(body)] = newblock(options)
                     /\ \A p \in ParentSet(TagOf(i)) : Count(body, ParentLink(p)) = 1

\* C13 with one link per Resolved child reference instead of one per parent
C13_OneLinkPerReference ==
    \A r \in DOMAIN outs : gen_results[r].kind = "Ok" =>
        \A i \in 1..TagCount :
            LET body == ParentsBody(SectionOf(outs[r], schema.tags[i].id))
            IN /\ ParentsPlaced(r, i)
               /\ ParentSet(TagOf(i)) # {} =>
                     /\ body[Len(body)] = newblock(options)
                     /\ \A k \in 1..(Len(body) - 1) :
                           \E p \in ParentSet(TagOf(i)) : body[k] = ParentLink(p)
                     /\ \A p \in ParentSet(TagOf(i)) :
                           Count(body, ParentLink(p)) = ResolvedRefs(p, TagOf(i))

\* --------------------------------------------------------------------- C14
\* C14: HeaderLevel::new(level) succeeds if and only if 1 <= level <= 6; for
\* every other integer, 0 and 7 included, it fails with BadHeaderLevel
\* carrying that level, so next() on level 6 fails as well.
C14_HeaderLevelRange ==
    header.via # "none" =>
        /\ header.via = "next" => header.arg = header.from + 1
        /\ IF 1 <= header.arg /\ header.arg <= 6
           THEN header.result = [ kind |-> "Ok", level |-> header.arg ]
           ELSE header.result = [ kind |-> "BadHeaderLevel", level |-> header.arg ]
        /\ (header.via = "next" /\ header.from = 6) =>
              header.result = [ kind |-> "BadHeaderLevel", level |-> 7 ]
        /\ pc = "generate" => options.level \in 1..6

\* next() was called on level 6 and failed
C14_Witness ==
    /\ header.via = "next"
    /\ header.from = 6
    /\ header.result.kind = "BadHeaderLevel"

\* new was asked for 0, for 7 and for the ends of i32
C14_WitnessNew ==
    /\ header.via = "new"
    /\ header.arg \in { 0, 7, I32Min, I32Max }
    /\ header.result.kind = "BadHeaderLevel"

\* --------------------------------------------------------------------- C15
\* C15: the parent collection of a tag is a set: in every model load_from
\* returns parents[C] holds every parent identifier at most once, also when
\* a tag declares two child references to the same name, and so the rendered
\* Parents block lists every parent once.
C15_ParentsAreASet ==
    result.kind = "Ok" =>
        /\ \A c \in DOMAIN parents : \A p \in DOMAIN tags : Count(parents[c], p) <= 1
        /\ \A r \in DOMAIN outs : gen_results[r].kind = "Ok" =>
              \A i \in 1..TagCount : \A p \in DOMAIN tags :
                  Count(ParentItems(SectionOf(outs[r], schema.tags[i].id)),
                        ParentLink(p)) <= 1

====
